---- MODULE Spec2Model ----
(***************************************************************************)
(* A model of spawrious.py: the download / extract bookkeeping kept in     *)
(* datasets.txt, the combination resolver of SpawriousBenchmark.__init__,  *)
(* the Type-1 / Type-2 combination builders and prepend_path.              *)
(*                                                                         *)
(* Strings are modelled as sequences of tokens so that the string          *)
(* operations of the source (lower, split, readlines, replace, join) are   *)
(* computed and not assumed:                                               *)
(*   - a dataset name is the sequence of its "_"-separated words,          *)
(*     "m2m_easy" is <<"m2m", "easy">>;                                    *)
(*   - the content of datasets.txt is a sequence whose elements are the    *)
(*     newline NL or a dataset name;                                       *)
(*   - a path is a sequence over ".", "/" and words.                       *)
(***************************************************************************)
EXTENDS Integers, Sequences, FiniteSets, TLC

VARIABLES
    rootExists,   \* the root directory exists
    tar,          \* archive name -> "absent" | "complete" | "truncated"
    manifestExists, \* datasets.txt exists
    manifest,     \* content of datasets.txt
    last,         \* what the last call did
    prevLast,     \* what the call before it did
    pre,          \* the storage as it was when the last call started
    calls,        \* number of calls made
    clean,        \* no call has raised so far
    train_combinations, test_combinations, type1, disk,  \* resolver inputs
    datasets,     \* SpawriousBenchmark.datasets, or an error
    built,        \* the per-placement sub-collections, as built
    pc,           \* position of the resolver / builder run
    group, test, filler,   \* builder inputs
    combinations, \* builder output
    record,       \* a deserialized benchmark: its leaf image folders
    original,     \* the record as deserialized
    applied       \* the roots prepend_path has been called with, in order

vars == <<rootExists, tar, manifestExists, manifest, last, prevLast, pre, calls,
          clean, train_combinations, test_combinations, type1, disk, datasets,
          built, pc, group, test, filler, combinations, record, original,
          applied>>

storeVars == <<rootExists, tar, manifestExists, manifest, last, prevLast, pre,
               calls, clean>>
resolverVars == <<train_combinations, test_combinations, type1, disk, datasets,
                  built>>
builderVars == <<group, test, filler, combinations>>
rebindVars == <<record, original, applied>>

----------------------------------------------------------------------------
(* Bounds *)

MaxCalls == 3

----------------------------------------------------------------------------
(* Dataset names *)

\* the newline character, as an element of a file content
NL == <<"\n">>

\* str.lower() on one word of a name
LowerWord(w) ==
    CASE w = "O2O" -> "o2o"
      [] w = "M2M" -> "m2m"
      [] w = "Easy" -> "easy"
      [] w = "HARD" -> "hard"
      [] OTHER -> w

\* dataset_name.lower()
Lower(name) == [i \in 1..Len(name) |-> LowerWord(name[i])]

\* the names the callers of the model pass in
InputNames ==
    { <<"o2o", "easy">>, <<"m2m", "easy">>, <<"m2m">>, <<"entire", "dataset">>,
      <<"O2O", "Easy">>, <<"M2M", "HARD">>, <<"bogus">>, <<"m2m", "bogus">> }

\* the set of the assert in download_spawrious_dataset
AllowedNames ==
    { <<"o2o", "easy">>, <<"o2o", "medium">>, <<"o2o", "hard">>,
      <<"m2m", "easy">>, <<"m2m", "medium">>, <<"m2m", "hard">>,
      <<"m2m">>, <<"entire", "dataset">> }

\* the keys of url_dict; an archive file spawrious__<key>.tar.gz per key
url_dict_keys ==
    { <<"entire", "dataset">>, <<"o2o", "easy">>, <<"o2o", "medium">>,
      <<"o2o", "hard">>, <<"m2m">> }

\* the keys of filename_map
filename_map_keys ==
    { <<"o2o", "easy">>, <<"o2o", "medium">>, <<"o2o", "hard">>,
      <<"m2m", "easy">>, <<"m2m", "medium">>, <<"m2m", "hard">> }

\* lines 34-36: lower-case, then every m2m_* name becomes m2m
NormalizeName(dataset_name) ==
    LET n == Lower(dataset_name)
    IN IF Len(n) > 0 /\ n[1] = "m2m" THEN <<"m2m">> ELSE n

----------------------------------------------------------------------------
(* datasets.txt *)

RECURSIVE SplitLines(_, _)
\* f.readlines(): the lines of the content, each keeping its newline
SplitLines(content, cur) ==
    IF content = <<>> THEN (IF cur = <<>> THEN <<>> ELSE <<cur>>)
    ELSE IF Head(content) = NL
         THEN <<Append(cur, NL)>> \o SplitLines(Tail(content), <<>>)
         ELSE SplitLines(Tail(content), Append(cur, Head(content)))

readlines(content) == SplitLines(content, <<>>)

\* set(f.readlines())
LineSet(content) == { readlines(content)[i] : i \in 1..Len(readlines(content)) }

\* lines 57 and 84: (dataset_name in lines) or ('entire_dataset' in lines),
\* a string is in the set when a whole line, newline included, equals it
MarkedInFile(content, dataset_name) ==
    \/ <<dataset_name>> \in LineSet(content)
    \/ << <<"entire", "dataset">> >> \in LineSet(content)

\* fault variant: the write is lost
AppendNothing(content, dataset_name) == content

\* lines 64-65, 73-74, 110-111: f.write('\n' + dataset_name) in append mode
AppendToManifest(content, dataset_name) == content \o <<NL, dataset_name>>

----------------------------------------------------------------------------
(* Storage: the root directory, the archive files and datasets.txt *)

Storage(r, t, me, m) ==
    [rootExists |-> r, tar |-> t, manifestExists |-> me, manifest |-> m]

CurrentStorage == Storage(rootExists, tar, manifestExists, manifest)

\* what the network and the disk do during one call: urlopen and the chunked
\* copy end "ok", are cut short ("interrupted": the file is left as far as it
\* was written) or never start ("refused"); unpacking a complete archive
\* ends "ok" or raises ("fail")
Environments == [fetch : {"ok", "interrupted", "refused"}, extract : {"ok", "fail"}]

Result(st, outcome, fetched, extractAttempted, extractOk) ==
    [st |-> st, outcome |-> outcome, fetched |-> fetched,
     extractAttempted |-> extractAttempted, extractOk |-> extractOk]

\* tarfile.open / extractall of lines 19-21 raise on a truncated gzip stream
ExtractSucceeds(st, key, env) == st.tar[key] = "complete" /\ env.extract = "ok"

\* _extract_dataset_from_tar: unpack, then os.remove when asked to; the
\* storage is returned unchanged when unpacking raises
extract_dataset_from_tar(st, key, remove_tar_after_extracting, env) ==
    IF ExtractSucceeds(st, key, env) /\ remove_tar_after_extracting
    THEN [st EXCEPT !.tar[key] = "absent"]
    ELSE st

\* the open(...,'a') / f.write of lines 64-65, 73-74 and 110-111
mark_extracted(st, key) ==
    [st EXCEPT !.manifestExists = TRUE,
               !.manifest = AppendToManifest(st.manifest, key)]

\* fault variant: the append is reached even when unpacking raises
mark_even_on_failure(st, key, remove, env, fetched) ==
    Result(mark_extracted(extract_dataset_from_tar(st, key, remove, env), key),
           IF ExtractSucceeds(st, key, env) THEN "ok" ELSE "ExtractError",
           fetched, TRUE, ExtractSucceeds(st, key, env))

\* extraction followed by the manifest append, as all three paths do it
\* (lines 61-65, 70-74, 107-111); the append is not reached when unpacking raises
extract_and_mark(st, key, remove, env, fetched) ==
    IF ExtractSucceeds(st, key, env)
    THEN Result(mark_extracted(extract_dataset_from_tar(st, key, remove, env), key),
                "ok", fetched, TRUE, TRUE)
    ELSE Result(st, "ExtractError", fetched, TRUE, FALSE)

\* lines 54-57 and 81-86: datasets.txt exists and marks the name
is_extracted(st, key) ==
    st.manifestExists /\ MarkedInFile(st.manifest, key)

\* lines 91-104: urlopen, then open(tar_file_dst, "wb") and the chunked copy
fetch(st, key, env) ==
    CASE env.fetch = "ok" -> [st EXCEPT !.tar[key] = "complete"]
      [] env.fetch = "interrupted" -> [st EXCEPT !.tar[key] = "truncated"]
      [] OTHER -> st

\* fault variant: the archive file is not looked for (no lines 50-74)
refetch_when_present(st, dataset_name, remove, env) ==
    LET key == NormalizeName(dataset_name)
    IN IF is_extracted(st, key)
       THEN Result(st, "ok", FALSE, FALSE, FALSE)
       ELSE IF env.fetch # "ok"
            THEN Result(fetch(st, key, env), "FetchError", TRUE, FALSE, FALSE)
            ELSE extract_and_mark(fetch(st, key, env), key, remove, env, TRUE)

\* _download_dataset_if_not_available (lines 27-111)
download_dataset_if_not_available(st, dataset_name, remove, env) ==
    LET key == NormalizeName(dataset_name)
    IN IF key \notin url_dict_keys
       THEN Result(st, "KeyError", FALSE, FALSE, FALSE)
       ELSE IF st.tar[key] # "absent"
            THEN \* lines 50-74
                 IF is_extracted(st, key)
                 THEN Result(st, "ok", FALSE, FALSE, FALSE)
                 ELSE extract_and_mark(st, key, remove, env, FALSE)
            ELSE \* lines 77-111
                 IF is_extracted(st, key)
                 THEN Result(st, "ok", FALSE, FALSE, FALSE)
                 ELSE IF env.fetch # "ok"
                      THEN Result(fetch(st, key, env), "FetchError", TRUE, FALSE, FALSE)
                      ELSE extract_and_mark(fetch(st, key, env), key, remove, env, TRUE)

\* download_spawrious_dataset (lines 420-426): assert, makedirs, download
download_spawrious_dataset(st, dataset_name, env) ==
    IF Lower(dataset_name) \notin AllowedNames
    THEN Result(st, "AssertionError", FALSE, FALSE, FALSE)
    ELSE download_dataset_if_not_available(
             [st EXCEPT !.rootExists = TRUE], dataset_name, TRUE, env)

\* get_torch_dataset (lines 428-447): download first, then the filename_map
\* lookup; env.load says whether torch.load finds and reads the snapshot
get_torch_dataset(st, dataset_name, env, loads) ==
    LET d == download_spawrious_dataset(st, dataset_name, env)
    IN IF d.outcome # "ok" THEN d
       ELSE IF Lower(dataset_name) \notin filename_map_keys
            THEN [d EXCEPT !.outcome = "ValueError"]
            ELSE IF loads THEN d ELSE [d EXCEPT !.outcome = "LoadError"]

----------------------------------------------------------------------------
(* The download state machine *)

NoCall ==
    [op |-> "none", name |-> <<>>, outcome |-> "none", fetched |-> FALSE,
     extractAttempted |-> FALSE, extractOk |-> FALSE]

CallRecord(op, name, r) ==
    [op |-> op, name |-> name, outcome |-> r.outcome, fetched |-> r.fetched,
     extractAttempted |-> r.extractAttempted, extractOk |-> r.extractOk]

\* the variables of the other components, at rest
ResolverIdle ==
    /\ train_combinations = <<>> /\ test_combinations = <<>> /\ type1 = FALSE
    /\ disk = <<>> /\ datasets = <<>> /\ built = <<>>
BuilderIdle == group = <<>> /\ test = <<>> /\ filler = "" /\ combinations = <<>>
RebindIdle == record = <<>> /\ original = <<>> /\ applied = <<>>

InitStore ==
    /\ rootExists = FALSE
    /\ tar = [k \in url_dict_keys |-> "absent"]
    /\ manifestExists = FALSE
    /\ manifest = <<>>
    /\ last = NoCall /\ prevLast = NoCall
    /\ pre = Storage(FALSE, [k \in url_dict_keys |-> "absent"], FALSE, <<>>)
    /\ calls = 0
    /\ clean = TRUE

Init == InitStore /\ ResolverIdle /\ BuilderIdle /\ RebindIdle /\ pc = "store"

\* the storage and the call history after a call that ended as r
Commit(op, name, r) ==
    /\ rootExists' = r.st.rootExists
    /\ tar' = r.st.tar
    /\ manifestExists' = r.st.manifestExists
    /\ manifest' = r.st.manifest
    /\ pre' = CurrentStorage
    /\ prevLast' = last
    /\ last' = CallRecord(op, name, r)
    /\ calls' = calls + 1
    /\ clean' = (clean /\ r.outcome = "ok")
    /\ UNCHANGED <<resolverVars, builderVars, rebindVars, pc>>

\* download(name, root): one call of download_spawrious_dataset
Download(name) ==
    /\ pc = "store" /\ calls < MaxCalls
    /\ \E env \in Environments :
         Commit("download", name, download_spawrious_dataset(CurrentStorage, name, env))

\* load(name, root): one call of get_torch_dataset
Load(name) ==
    /\ pc = "store" /\ calls < MaxCalls
    /\ \E env \in Environments, loads \in BOOLEAN :
         Commit("load", name, get_torch_dataset(CurrentStorage, name, env, loads))

Next ==
    \/ \E name \in InputNames : Download(name)
    \/ \E name \in InputNames : Load(name)

Spec == Init /\ [][Next]_vars

----------------------------------------------------------------------------
(* Properties of the download state machine *)

\* a line without its newline
StripNewline(line) ==
    IF line # <<>> /\ line[Len(line)] = NL THEN SubSeq(line, 1, Len(line) - 1) ELSE line

\* some line of datasets.txt is the name, or is entire_dataset
ListedInManifest(st, key) ==
    /\ st.manifestExists
    /\ \E line \in LineSet(st.manifest) :
         StripNewline(line) \in { <<key>>, << <<"entire", "dataset">> >> }

\* the number of entries of datasets.txt that are the name
Entries(content, key) == Cardinality({ i \in 1..Len(content) : content[i] = key })

IsCall(c) == c.op \in {"download", "load"}
\* the call got past the assert of download_spawrious_dataset
Validated(c) == IsCall(c) /\ c.outcome # "AssertionError"
KeyOf(c) == NormalizeName(c.name)
NoWork(c) == ~c.fetched /\ ~c.extractAttempted

\* C1: after any sequence of successful calls, a download does no fetch and no
\* extraction exactly when some line of datasets.txt, as it was when the call
\* started, is the normalized name or entire_dataset.
C1_NoWorkIffListed ==
    (clean /\ last.op = "download" /\ last.outcome = "ok")
        => (NoWork(last) <=> ListedInManifest(pre, KeyOf(last)))

\* C2: the second of two successive successful downloads of one name does no
\* fetch and no extraction and leaves datasets.txt as the first left it.
C2_SecondDownloadIsNoOp ==
    ( /\ last.op = "download" /\ last.outcome = "ok"
      /\ prevLast.op = "download" /\ prevLast.outcome = "ok"
      /\ KeyOf(prevLast) = KeyOf(last) )
        => /\ NoWork(last)
           /\ manifest = pre.manifest
           /\ manifestExists = pre.manifestExists

\* two successive successful downloads of one name, the first of which fetched
\* and extracted into a root that already listed another name
C2_Witness ==
    /\ last.op = "download" /\ last.outcome = "ok"
    /\ prevLast.op = "download" /\ prevLast.outcome = "ok"
    /\ prevLast.name = last.name
    /\ prevLast.fetched /\ prevLast.extractOk
    /\ Len(manifest) >= 4

C6Step ==
    LET k == KeyOf(last')
    IN /\ (last'.extractAttempted /\ ~last'.extractOk)
            => /\ manifest' = manifest /\ manifestExists' = manifestExists
               /\ tar'[k] # "absent"
               /\ last'.outcome = "ExtractError"
       /\ (manifest' # manifest \/ manifestExists' # manifestExists)
            => /\ last'.extractOk
               /\ manifestExists'
               /\ manifest' = manifest \o <<NL, k>>
       /\ ( /\ last.extractAttempted /\ ~last.extractOk
            /\ Validated(last') /\ KeyOf(last) = k )
            => last'.extractAttempted /\ ~last'.fetched

\* C6: datasets.txt gains an entry only in a call whose extraction completed,
\* and the entry is that call's name; a call whose extraction raises leaves
\* datasets.txt as it was and the archive in place, and the next call for the
\* name attempts the extraction again, without fetching.
C6_ManifestOnlyAfterExtraction == [][C6Step]_vars

\* a retry after a freshly fetched archive failed to unpack, in a root that
\* has a datasets.txt; the retry fails too
C6_Witness ==
    /\ prevLast.fetched /\ prevLast.extractAttempted /\ ~prevLast.extractOk
    /\ Validated(last) /\ KeyOf(last) = KeyOf(prevLast)
    /\ last.extractAttempted /\ ~last.extractOk
    /\ pre.manifestExists

\* C7: a call with a name its entry point does not accept raises and leaves
\* the storage as it was.
C7_RejectedBeforeAnyEffect ==
    ( \/ last.op = "download" /\ Lower(last.name) \notin AllowedNames
      \/ last.op = "load" /\ Lower(last.name) \notin filename_map_keys )
        => /\ last.outcome \in {"AssertionError", "ValueError"}
           /\ CurrentStorage = pre

C10Step ==
    \A k \in url_dict_keys :
       /\ (tar[k] # "absent" /\ Validated(last') /\ KeyOf(last') = k)
            => ~last'.fetched
       /\ tar[k] = "truncated"
            => /\ tar'[k] = "truncated"
               /\ Entries(manifest', k) = Entries(manifest, k)
       /\ ( /\ tar[k] = "truncated" /\ ~is_extracted(CurrentStorage, k)
            /\ Validated(last') /\ KeyOf(last') = k )
            => /\ last'.extractAttempted /\ ~last'.extractOk
               /\ last'.outcome = "ExtractError"
               /\ manifest' = manifest

\* C10: a call for a name whose archive file exists never fetches; a truncated
\* archive stays as it is and its name is never appended to datasets.txt; and
\* while datasets.txt does not mark the name, every call for it attempts the
\* extraction and fails.
C10_TruncatedArchiveIsNeverRefetched == [][C10Step]_vars

\* the second rerun after an interrupted fetch: both reruns tried to unpack
\* the truncated archive and failed
C10_Witness ==
    /\ last.outcome = "ExtractError" /\ ~last.fetched
    /\ pre.tar[KeyOf(last)] = "truncated"
    /\ prevLast.outcome = "ExtractError" /\ ~prevLast.fetched
    /\ KeyOf(prevLast) = KeyOf(last)

----------------------------------------------------------------------------
(* Image folders on disk *)

MaxItems == 2        \* most image files of one class in one location folder
MaxCap == 2          \* largest sample cap of a placement
MaxPlacements == 2   \* longest placement list of a class-group

Locations == {"beach", "snow"}

\* self.class_list, in the sorted order ImageFolder gives class folders
class_list == <<"bulldog", "corgi", "dachshund", "labrador">>

\* the classes the modelled folders hold images of
Classes == {"bulldog", "corgi"}

\* root_dir/<index>/<location>/ as <<index, location>>
Paths == (0..(MaxPlacements - 1)) \X Locations

\* lines 177-179, 222-224, 248-250: folder 0, or the placement's index for type1
folder_path(location, ind, isType1) == <<IF isType1 THEN ind ELSE 0, location>>

\* the class folders ImageFolder finds under a path: those holding images,
\* in sorted order
ClassesFound(counts) ==
    SelectSeq(class_list, LAMBDA c : c \in DOMAIN counts /\ counts[c] > 0)

RECURSIVE Repeat(_, _)
Repeat(x, n) == IF n = 0 THEN <<>> ELSE <<x>> \o Repeat(x, n - 1)

RECURSIVE LabelsFrom(_, _, _)
LabelsFrom(found, counts, i) ==
    IF i > Len(found) THEN <<>>
    ELSE Repeat(i - 1, counts[found[i]]) \o LabelsFrom(found, counts, i + 1)

\* ImageFolder(root=path): classes are the sorted class folders, class_to_idx
\* their ranks, and the samples are listed class by class, so labels[i + 1] is
\* the label of item i
ImageFolder(path) ==
    LET found == ClassesFound(disk[path])
    IN [root |-> path, classes |-> found, labels |-> LabelsFrom(found, disk[path], 1)]

\* ImageFolder raises FileNotFoundError when it finds no class folder
Opens(path) == ClassesFound(disk[path]) # <<>>

\* data.class_to_idx[c]; a KeyError when the folder has no such class
HasClass(data, c) == \E i \in 1..Len(data.classes) : data.classes[i] = c
class_to_idx(data, c) == (CHOOSE i \in 1..Len(data.classes) : data.classes[i] = c) - 1

----------------------------------------------------------------------------
(* Datasets: ImageFolder, Subset and ConcatDataset *)

WholeFolder(data) ==
    [kind |-> "ImageFolder", root |-> data.root,
     indices |-> [i \in 1..Len(data.labels) |-> i - 1], parts |-> <<>>]
Subset(data, to_keep_idx) ==
    [kind |-> "Subset", root |-> data.root, indices |-> to_keep_idx, parts |-> <<>>]
ConcatDataset(parts) ==
    [kind |-> "ConcatDataset", root |-> <<>>, indices |-> <<>>, parts |-> parts]

RECURSIVE Items(_)
RECURSIVE ItemsOfParts(_)
\* the items of a dataset in order, each as <<folder path, index in the folder>>
Items(ds) ==
    IF ds.kind = "ConcatDataset" THEN ItemsOfParts(ds.parts)
    ELSE [i \in 1..Len(ds.indices) |-> <<ds.root, ds.indices[i]>>]
ItemsOfParts(parts) ==
    IF parts = <<>> THEN <<>> ELSE Items(Head(parts)) \o ItemsOfParts(Tail(parts))

RECURSIVE ScanForClass(_, _, _, _, _)
\* lines 185-191: the inner loop from item i on, count_limit items kept so far;
\* the limit is tested after the item has been appended
ScanForClass(labels, i, class_to_limit, count_limit, limit) ==
    IF i >= Len(labels) THEN <<>>
    ELSE LET hit == labels[i + 1] = class_to_limit
             count == IF hit THEN count_limit + 1 ELSE count_limit
             kept == IF hit THEN <<i>> ELSE <<>>
         IN IF count >= limit THEN kept
            ELSE kept \o ScanForClass(labels, i + 1, class_to_limit, count, limit)

RECURSIVE KeepForClasses(_, _, _)
\* lines 183-191: to_keep_idx, class after class of classes_idx
KeepForClasses(labels, classes_idx, limit) ==
    IF classes_idx = <<>> THEN <<>>
    ELSE ScanForClass(labels, 0, Head(classes_idx), 0, limit)
         \o KeepForClasses(labels, Tail(classes_idx), limit)

classes_idx_of(data, classes) ==
    [i \in 1..Len(classes) |-> class_to_idx(data, classes[i])]

\* lines 180-193: the sub-collection of one training placement
TrainSubset(classes, path, limit) ==
    LET data == ImageFolder(path)
    IN Subset(data, KeepForClasses(data.labels, classes_idx_of(data, classes), limit))

\* lines 225-232: the sub-collection of one test placement
TestSubset(classes, path) ==
    LET data == ImageFolder(path)
        idx == classes_idx_of(data, classes)
    IN Subset(data, SelectSeq([i \in 1..Len(data.labels) |-> i - 1],
                              LAMBDA i : \E j \in 1..Len(idx) : idx[j] = data.labels[i + 1]))

----------------------------------------------------------------------------
(* SpawriousBenchmark.__init__: the combination resolver *)

DictForm(groups) == [form |-> "dict", groups |-> groups, locations |-> <<>>]
ListForm(locations) == [form |-> "list", groups |-> <<>>, locations |-> locations]

ClassGroup(classes, placements) == [classes |-> classes, placements |-> placements]
Placement(location, limit) == [location |-> location, limit |-> limit]

\* the location of a placement: (location, limit) for training, location for test
LocationOf(p, isTrain) == IF isTrain THEN p.location ELSE p

\* lines 171-196 and 216-235: for_each_class_group, one row per class-group in
\* mapping order, one sub-collection per placement
for_each_class_group(comb, isTrain) ==
    [k \in 1..Len(comb.groups) |->
        LET g == comb.groups[k]
        IN [ind \in 1..Len(g.placements) |->
               LET path == folder_path(LocationOf(g.placements[ind], isTrain),
                                       ind - 1, type1)
               IN IF isTrain
                  THEN TrainSubset(g.classes, path, g.placements[ind].limit)
                  ELSE TestSubset(g.classes, path)]]

\* lines 197-205 and 236-244: one ConcatDataset per position of the first row,
\* holding that position of every row
joint_datasets(rows) ==
    [g \in 1..Len(rows[1]) |->
        ConcatDataset([k \in 1..Len(rows) |-> rows[k][g]])]

\* for_each_class_group[0] of an empty mapping, or for_each_class_group[k][group]
\* of a row shorter than the first, raises IndexError
JointRaises(rows) ==
    \/ rows = <<>>
    \/ \E k \in 1..Len(rows) : Len(rows[k]) < Len(rows[1])

\* every folder of a dict-form combination opens and has the classes of its key
FoldersOk(comb, isTrain) ==
    \A k \in 1..Len(comb.groups) : \A ind \in 1..Len(comb.groups[k].placements) :
        LET path == folder_path(LocationOf(comb.groups[k].placements[ind], isTrain),
                                ind - 1, type1)
        IN /\ Opens(path)
           /\ \A i \in 1..Len(comb.groups[k].classes) :
                  HasClass(ImageFolder(path), comb.groups[k].classes[i])

SideResult(status, rows, list) == [status |-> status, rows |-> rows, list |-> list]

\* lines 170-212 (isTrain) and 215-253: train_data_list or test_data_list
data_list(comb, isTrain) ==
    IF comb.form = "dict"
    THEN IF ~FoldersOk(comb, isTrain)
         THEN SideResult("FolderError", <<>>, <<>>)
         ELSE LET rows == for_each_class_group(comb, isTrain)
              IN IF JointRaises(rows)
                 THEN SideResult("IndexError", rows, <<>>)
                 ELSE SideResult("ok", rows, joint_datasets(rows))
    ELSE LET path(ind) == IF isTrain THEN <<0, comb.locations[ind]>>
                          ELSE folder_path(comb.locations[ind], ind - 1, type1)
         IN IF \E ind \in 1..Len(comb.locations) : ~Opens(path(ind))
            THEN SideResult("FolderError", <<>>, <<>>)
            ELSE SideResult("ok", <<>>,
                     [ind \in 1..Len(comb.locations) |-> WholeFolder(ImageFolder(path(ind)))])

\* lines 255-258: self.datasets = [test_data] + train_data_list
record_of(test_data_list, train_data_list) ==
    <<ConcatDataset(test_data_list)>> \o train_data_list

\* the constructor: the training side, then the test side, then the record
Construct ==
    /\ pc = "resolve"
    /\ LET tr == data_list(train_combinations, TRUE)
           te == data_list(test_combinations, FALSE)
       IN IF tr.status # "ok"
          THEN /\ pc' = tr.status
               /\ built' = [train |-> tr, test |-> SideResult("none", <<>>, <<>>)]
               /\ datasets' = <<>>
          ELSE IF te.status # "ok"
          THEN /\ pc' = te.status
               /\ built' = [train |-> tr, test |-> te]
               /\ datasets' = <<>>
          ELSE /\ pc' = "done"
               /\ built' = [train |-> tr, test |-> te]
               /\ datasets' = record_of(te.list, tr.list)
    /\ UNCHANGED <<train_combinations, test_combinations, type1, disk>>
    /\ UNCHANGED <<storeVars, builderVars, rebindVars>>

----------------------------------------------------------------------------
(* The resolver's inputs *)

MaxClassGroups == 2  \* most class-groups of one mapping

SeqsUpTo(S, n) == UNION { [1..m -> S] : m \in 1..n }

\* class-group keys: tuples of distinct classes
Keys == { <<"bulldog">>, <<"corgi">>, <<"bulldog", "corgi">>, <<"corgi", "bulldog">> }

\* the keys of a mapping are distinct
KeyLists ==
    { ks \in SeqsUpTo({ <<"bulldog">>, <<"corgi">>, <<"bulldog", "corgi">> }, MaxClassGroups) :
        \A i, j \in 1..Len(ks) : i # j => ks[i] # ks[j] }

ZipGroups(ks, lists) == [k \in 1..Len(ks) |-> ClassGroup(ks[k], lists[k])]

\* mappings of up to MaxClassGroups class-groups whose placement lists are
\* drawn, each on its own, from Lists: the lists may differ in length
Mappings(Lists) ==
    UNION { { DictForm(ZipGroups(ks, lists)) : lists \in [1..Len(ks) -> Lists] } :
              ks \in KeyLists }

\* a disk whose folders all hold every class, in amounts that differ by folder
RichDisk ==
    [p \in Paths |->
        [c \in Classes |->
            IF c = "bulldog" THEN MaxItems - (p[1] % MaxItems)
            ELSE IF p[2] = "beach" THEN 1 ELSE MaxItems]]

\* disks whose index folders are copies of folder 0
CopiedDisks ==
    { [p \in Paths |-> d[p[2]]] : d \in [Locations -> [Classes -> 0..MaxItems]] }

\* one class-group with one capped placement, tested on the same location,
\* over every content of the folders
InitFilter ==
    /\ disk \in CopiedDisks
    /\ type1 \in BOOLEAN
    /\ \E key \in Keys, location \in Locations, limit \in 0..MaxCap :
         /\ train_combinations =
                DictForm(<<ClassGroup(key, <<Placement(location, limit)>>)>>)
         /\ test_combinations = DictForm(<<ClassGroup(key, <<location>>)>>)

\* mappings of every shape, and the flat lists of locations, over one disk
InitShapes ==
    /\ disk = RichDisk
    /\ type1 \in BOOLEAN
    /\ train_combinations \in
          { m \in Mappings(SeqsUpTo({ Placement(l, 1) : l \in Locations }, MaxPlacements)) :
              Len(m.groups) = MaxClassGroups \/ Len(m.groups[1].placements) = 1 }
            \cup { ListForm(ls) : ls \in SeqsUpTo(Locations, 1) }
    /\ test_combinations \in
          { m \in Mappings(SeqsUpTo(Locations, MaxPlacements)) :
              \A k \in 1..Len(m.groups) : Len(m.groups[k].classes) = 1 }
            \cup { ListForm(ls) : ls \in SeqsUpTo(Locations, 1) }

InitResolve ==
    /\ InitFilter \/ InitShapes
    /\ datasets = <<>>
    /\ built = [train |-> SideResult("none", <<>>, <<>>),
                test |-> SideResult("none", <<>>, <<>>)]
    /\ pc = "resolve"
    /\ InitStore /\ BuilderIdle /\ RebindIdle

NextResolve == Construct

SpecResolve == InitResolve /\ [][NextResolve]_vars

----------------------------------------------------------------------------
(* Properties of the resolver *)

Min(a, b) == IF a <= b THEN a ELSE b

Longest(rows) ==
    CHOOSE n \in 0..MaxPlacements :
        /\ \A k \in 1..Len(rows) : Len(rows[k]) <= n
        /\ rows # <<>> => \E k \in 1..Len(rows) : Len(rows[k]) = n

\* position g of every row that has a position g, in row order
AtPosition(rows, g) ==
    LET ks == SelectSeq([k \in 1..Len(rows) |-> k], LAMBDA k : Len(rows[k]) >= g)
    IN [j \in 1..Len(ks) |-> rows[ks[j]][g]]

RECURSIVE PositionsFrom(_, _)
\* every position of every row, position by position
PositionsFrom(rows, g) ==
    IF g > Longest(rows) THEN <<>>
    ELSE AtPosition(rows, g) \o PositionsFrom(rows, g + 1)

\* the joint datasets are one per position, each holding that position of
\* every row that has it
Aligned(rows, list) ==
    /\ Len(list) = Longest(rows)
    /\ \A g \in 1..Len(list) : list[g] = ConcatDataset(AtPosition(rows, g))

\* the sub-collections of a dict-form side were all built
RowsBuilt(side) == side.status \in {"ok", "IndexError"}

\* C3: for a dict-form train_combinations whose folders all open, joint
\* training dataset g holds position g of every class-group that has a
\* position g, in class-group order, and there is one joint dataset per
\* position, so that no placement is left out.
C3_GroupIndexAlignment ==
    (pc # "resolve" /\ train_combinations.form = "dict" /\ RowsBuilt(built.train))
        => /\ built.train.status = "ok"
           /\ Aligned(built.train.rows, built.train.list)

\* the indices of the items of a class, in storage order
IndicesOfClass(data, c) ==
    SelectSeq([i \in 1..Len(data.labels) |-> i - 1],
              LAMBDA i : data.labels[i + 1] = class_to_idx(data, c))

First(seq, n) == SubSeq(seq, 1, Min(n, Len(seq)))

\* the sub-collection holds, of each class of the key, the first
\* min(limit, n_c) items, and nothing of any other class
CappedPerClass(sub, data, classes, limit) ==
    /\ \A j \in 1..Len(classes) :
          SelectSeq(sub.indices,
                    LAMBDA i : data.labels[i + 1] = class_to_idx(data, classes[j]))
            = First(IndicesOfClass(data, classes[j]), limit)
    /\ \A n \in 1..Len(sub.indices) :
          \E j \in 1..Len(classes) :
              data.labels[sub.indices[n] + 1] = class_to_idx(data, classes[j])

\* C4: every training sub-collection holds exactly the first min(cap, n_c)
\* items of each class c of its class-group, in storage order, and no item of
\* a class outside the group.
C4_CapPerClass ==
    (pc # "resolve" /\ train_combinations.form = "dict" /\ RowsBuilt(built.train))
        => \A k \in 1..Len(train_combinations.groups) :
             LET g == train_combinations.groups[k]
             IN \A ind \in 1..Len(g.placements) :
                  CappedPerClass(
                      built.train.rows[k][ind],
                      ImageFolder(folder_path(g.placements[ind].location, ind - 1, type1)),
                      g.classes, g.placements[ind].limit)

RECURSIVE SumSizes(_)
SumSizes(subs) == IF subs = <<>> THEN 0 ELSE Len(Head(subs).indices) + SumSizes(Tail(subs))

\* every test sub-collection holds every item whose class is in its group
Uncapped(rows) ==
    \A k \in 1..Len(rows) : \A ind \in 1..Len(rows[k]) :
        LET g == test_combinations.groups[k]
            data == ImageFolder(folder_path(g.placements[ind], ind - 1, type1))
        IN rows[k][ind].indices =
              SelectSeq([i \in 1..Len(data.labels) |-> i - 1],
                        LAMBDA i : \E j \in 1..Len(g.classes) :
                                      data.labels[i + 1] = class_to_idx(data, g.classes[j]))

\* C5: for dict-form combinations whose folders all open the record is
\* [test_dataset, train_group_1, ..., train_group_n]: test_dataset is the flat
\* concatenation of every test sub-collection of every class-group at every
\* position, each uncapped, so its length is the sum of their sizes, and the
\* rest are the joint training datasets in position order.
C5_RecordLayout ==
    ( /\ pc # "resolve"
      /\ train_combinations.form = "dict" /\ test_combinations.form = "dict"
      /\ FoldersOk(train_combinations, TRUE) /\ FoldersOk(test_combinations, FALSE) )
        => /\ pc = "done"
           /\ Len(datasets) = 1 + Longest(built.train.rows)
           /\ Uncapped(built.test.rows)
           /\ Items(datasets[1]) = ItemsOfParts(PositionsFrom(built.test.rows, 1))
           /\ Len(Items(datasets[1])) = SumSizes(PositionsFrom(built.test.rows, 1))
           /\ Tail(datasets) = built.train.list
           /\ Aligned(built.train.rows, built.train.list)

----------------------------------------------------------------------------
(* build_type1_combination and build_type2_combination *)

\* total = 3168 (lines 279 and 304)
total == 3168

\* fault variant: round(x * total), to the nearest integer
round_of_fraction(percent, n) == (2 * percent * n + 100) \div 200

\* int(x * total) for x = percent / 100: the product, truncated. The product
\* is computed exactly here; the floating-point products of the source,
\* 3072.96 and 2756.16, are nowhere near an integer, so they truncate alike.
int_of_fraction(percent, n) == (percent * n) \div 100

\* counts = [int(0.97 * total), int(0.87 * total)] (line 280)
type1_counts == <<int_of_fraction(97, total), int_of_fraction(87, total)>>

\* lines 278-301
build_type1_combination(grp, tst, fill) ==
    LET counts == type1_counts
        correlated(c, i) ==
            ClassGroup(<<c>>, <<Placement(grp[i], counts[1]), Placement(grp[i], counts[2])>>)
        tested(c, i) == ClassGroup(<<c>>, <<tst[i], tst[i]>>)
    IN [train_combinations |->
            DictForm(<< correlated("bulldog", 1), correlated("dachshund", 2),
                        correlated("labrador", 3), correlated("corgi", 4),
                        ClassGroup(<<"bulldog", "dachshund", "labrador", "corgi">>,
                                   << Placement(fill, total - counts[1]),
                                      Placement(fill, total - counts[2]) >>) >>),
        test_combinations |->
            DictForm(<< tested("bulldog", 1), tested("dachshund", 2),
                        tested("labrador", 3), tested("corgi", 4) >>)]

\* lines 303-320
build_type2_combination(grp, tst) ==
    LET counts == <<total, total>>
        swapped(c, i, j) ==
            ClassGroup(<<c>>, <<Placement(grp[i], counts[1]), Placement(grp[j], counts[2])>>)
        tested(c, i, j) == ClassGroup(<<c>>, <<tst[i], tst[j]>>)
    IN [train_combinations |->
            DictForm(<< swapped("bulldog", 1, 2), swapped("dachshund", 2, 1),
                        swapped("labrador", 3, 4), swapped("corgi", 4, 3) >>),
        test_combinations |->
            DictForm(<< tested("bulldog", 1, 2), tested("dachshund", 2, 1),
                        tested("labrador", 3, 4), tested("corgi", 4, 3) >>)]

\* the group and test lists the builders are run on: every arrangement of
\* four of the locations, which has those of the six variants among them
Arrangements ==
    { a \in [1..4 -> {"desert", "jungle", "dirt", "snow"}] :
        \A i, j \in 1..4 : i # j => a[i] # a[j] }
      \cup { <<"mountain", "beach", "dirt", "jungle">>, <<"jungle", "dirt", "beach", "snow">>,
             <<"jungle", "mountain", "snow", "desert">>, <<"mountain", "snow", "desert", "jungle">>,
             <<"dirt", "jungle", "snow", "beach">>, <<"snow", "beach", "dirt", "jungle">>,
             <<"desert", "mountain", "dirt", "jungle">>, <<"dirt", "jungle", "mountain", "desert">>,
             <<"beach", "snow", "mountain", "desert">>, <<"desert", "mountain", "beach", "snow">> }

InitBuild ==
    /\ group \in Arrangements
    /\ test \in Arrangements
    /\ filler \in {"beach", "desert"}
    /\ combinations = <<>>
    /\ pc = "build"
    /\ InitStore /\ ResolverIdle /\ RebindIdle

\* SpuriousLocationType1_*.__init__ up to the call of the base constructor
BuildType1 ==
    /\ pc = "build"
    /\ combinations' = build_type1_combination(group, test, filler)
    /\ pc' = "type1"
    /\ UNCHANGED <<group, test, filler, storeVars, resolverVars, rebindVars>>

\* SpuriousLocationType2_*.__init__ up to the call of the base constructor
BuildType2 ==
    /\ pc = "build"
    /\ combinations' = build_type2_combination(group, test)
    /\ pc' = "type2"
    /\ UNCHANGED <<group, test, filler, storeVars, resolverVars, rebindVars>>

NextBuild == BuildType1 \/ BuildType2

SpecBuild == InitBuild /\ [][NextBuild]_vars

LimitsOf(g) == [i \in 1..Len(g.placements) |-> g.placements[i].limit]

\* C8 as stated: the correlated caps are round(0.97 * 3168) = 3073 and
\* round(0.87 * 3168) = 2756, the filler caps 95 and 412.
C8_RoundedCaps ==
    pc = "type1" =>
        LET gs == combinations.train_combinations.groups
        IN /\ \A k \in 1..4 : LimitsOf(gs[k]) = <<3073, 2756>>
           /\ LimitsOf(gs[5]) = <<95, 412>>

\* C8, amended: the correlated caps are int(0.97 * 3168) = 3072 and
\* int(0.87 * 3168) = 2756, the filler caps 3168 - 3072 = 96 and
\* 3168 - 2756 = 412, so that at each index a correlated cap and the filler
\* cap add up to 3168.
C8_TruncatedCaps ==
    pc = "type1" =>
        LET gs == combinations.train_combinations.groups
        IN /\ Len(gs) = 5
           /\ \A k \in 1..4 : LimitsOf(gs[k]) = <<3072, 2756>>
           /\ LimitsOf(gs[5]) = <<96, 412>>
           /\ \A k \in 1..4 : \A i \in 1..2 :
                 LimitsOf(gs[k])[i] + LimitsOf(gs[5])[i] = 3168

\* the Type-1 builder has run on the lists of SpuriousLocationType1_1
C8_Witness ==
    /\ pc = "type1"
    /\ group = <<"desert", "jungle", "dirt", "snow">>
    /\ test = <<"dirt", "snow", "desert", "jungle">>
    /\ filler = "beach"
    /\ combinations.train_combinations.groups[5].placements[1].location = "beach"

----------------------------------------------------------------------------
(* prepend_path *)

MaxRootLen == 3      \* longest root passed to prepend_path, in tokens

\* the tokens paths are made of: ".", the separator, and two words
PathTokens == {".", "/", "data", "a"}

\* "./data/"
Placeholder == <<".", "/", "data", "/">>

StartsWith(s, prefix) ==
    Len(s) >= Len(prefix) /\ SubSeq(s, 1, Len(prefix)) = prefix

RECURSIVE replace(_, _)
\* s.replace(old, ""): the occurrences of old, found left to right without
\* overlap, are removed; what the removals bring together is not searched again
replace(s, old) ==
    IF Len(s) < Len(old) THEN s
    ELSE IF StartsWith(s, old) THEN replace(SubSeq(s, Len(old) + 1, Len(s)), old)
    ELSE <<Head(s)>> \o replace(Tail(s), old)

\* os.path.join(a, b) on a POSIX system
join(a, b) ==
    IF b # <<>> /\ Head(b) = "/" THEN b
    ELSE IF a = <<>> \/ a[Len(a)] = "/" THEN a \o b
    ELSE a \o <<"/">> \o b

Sample(path, label) == [path |-> path, label |-> label]
Leaf(root, samples) == [root |-> root, samples |-> samples]

\* fault variant: the sample loop stops one short
rebind_all_but_last_sample(leaf, to_prepend) ==
    Leaf(join(to_prepend, replace(leaf.root, Placeholder)),
         [idx \in 1..Len(leaf.samples) |->
             IF idx = Len(leaf.samples) THEN leaf.samples[idx]
             ELSE Sample(join(to_prepend, replace(leaf.samples[idx].path, Placeholder)),
                         leaf.samples[idx].label)])

\* lines 264-276: the root and the samples of one image folder
rebind_leaf(leaf, to_prepend) ==
    Leaf(join(to_prepend, replace(leaf.root, Placeholder)),
         [idx \in 1..Len(leaf.samples) |->
             Sample(join(to_prepend, replace(leaf.samples[idx].path, Placeholder)),
                    leaf.samples[idx].label)])

\* lines 260-276: every image folder under every ConcatDataset of the record;
\* rec[n] is the sequence of image folders of the n-th ConcatDataset of
\* self.datasets[0].datasets + self.datasets[1:]
prepend_path(rec, to_prepend) ==
    [n \in 1..Len(rec) |->
        [m \in 1..Len(rec[n]) |-> rebind_leaf(rec[n][m], to_prepend)]]

\* a deserialized record: its paths start with ./data/ and are relative
\* once ./data/ is stripped
StoredLeaf(dir, files) ==
    Leaf(Placeholder \o dir,
         [i \in 1..Len(files) |->
             Sample(Placeholder \o dir \o <<"/">> \o files[i][1], files[i][2])])

StoredRecords ==
    { << <<StoredLeaf(<<"a">>, << <<<<"a">>, 0>>, <<<<"data">>, 1>> >>)>>,
         <<StoredLeaf(<<"a", "/", "a">>, << <<<<"a">>, 1>> >>)>> >>,
      << <<StoredLeaf(<<"data", "/", "a", "/">>, << <<<<"a", "/", "a">>, 0>> >>),
           StoredLeaf(<<"a">>, << <<<<"a">>, 0>> >>)>>,
         <<StoredLeaf(<<".", "/", "data", "/", "a">>, << <<<<"a">>, 0>> >>)>> >> }

Roots == {<<>>} \cup UNION { [1..n -> PathTokens] : n \in 1..MaxRootLen }

InitRebind ==
    /\ original \in StoredRecords
    /\ record = original
    /\ applied = <<>>
    /\ pc = "loaded"
    /\ InitStore /\ ResolverIdle /\ BuilderIdle

\* dataset.prepend_path(to_prepend); the record is changed in place
Rebind(to_prepend) ==
    /\ pc = "loaded"
    /\ Len(applied) < 2
    /\ record' = prepend_path(record, to_prepend)
    /\ applied' = Append(applied, to_prepend)
    /\ UNCHANGED <<original, pc, storeVars, resolverVars, builderVars>>

NextRebind == \E to_prepend \in Roots : Rebind(to_prepend)

SpecRebind == InitRebind /\ [][NextRebind]_vars

\* every path of a record: the leaf roots, then the sample paths
PathsOf(rec) ==
    [n \in 1..Len(rec) |->
        [m \in 1..Len(rec[n]) |->
            <<rec[n][m].root>> \o
            [i \in 1..Len(rec[n][m].samples) |-> rec[n][m].samples[i].path]]]

LabelsOf(rec) ==
    [n \in 1..Len(rec) |->
        [m \in 1..Len(rec[n]) |->
            [i \in 1..Len(rec[n][m].samples) |-> rec[n][m].samples[i].label]]]

Contains(s, sub) == \E i \in 0..(Len(s) - Len(sub)) : SubSeq(s, i + 1, i + Len(sub)) = sub

\* the paths of two records of one shape differ at every place
DifferEverywhere(ps, qs) ==
    \A n \in 1..Len(ps) : \A m \in 1..Len(ps[n]) : \A i \in 1..Len(ps[n][m]) :
        ps[n][m][i] # qs[n][m][i]

\* C9 as stated: for any two distinct roots r1 and r2, rebind(r1) followed by
\* rebind(r2) leaves leaf roots and sample paths different from those of a
\* single rebind(r2) of the record as stored, with the same labels and the
\* same number of samples.
C9_SecondRebindDiffers ==
    (Len(applied) = 2 /\ applied[1] # applied[2])
        => /\ PathsOf(record) # PathsOf(prepend_path(original, applied[2]))
           /\ LabelsOf(record) = LabelsOf(prepend_path(original, applied[2]))

\* the first root is not empty, no path holds "./data/" once rebound to it,
\* and the two roots are not one absolute root up to a trailing "/"
SingleUseCase(r1, r2) ==
    /\ r1 # <<>>
    /\ \A n \in 1..Len(original) : \A m \in 1..Len(original[n]) :
         \A i \in 1..Len(PathsOf(original)[n][m]) :
            ~Contains(join(r1, replace(PathsOf(original)[n][m][i], Placeholder)),
                      Placeholder)
    /\ Head(r1) = "/" => join(r1, <<>>) # join(r2, <<>>)

\* C9, amended: when the first root r1 is not empty, the paths rebound to r1
\* do not contain "./data/", and r1 and r2 are not the same absolute root up
\* to a trailing "/", rebind(r1) followed by rebind(r2) leaves every leaf root
\* and every sample path different from the one a single rebind(r2) of the
\* stored record gives, with the same labels and the same number of samples.
C9_SecondRebindDiffersWhenStripFails ==
    (Len(applied) = 2 /\ applied[1] # applied[2] /\ SingleUseCase(applied[1], applied[2]))
        => /\ DifferEverywhere(PathsOf(record), PathsOf(prepend_path(original, applied[2])))
           /\ LabelsOf(record) = LabelsOf(original)
           /\ LabelsOf(prepend_path(original, applied[2])) = LabelsOf(original)

\* rebound to the absolute root /a and then to the relative root a/a
C9_Witness ==
    /\ applied = << <<"/", "a">>, <<"a", "/", "a">> >>
    /\ SingleUseCase(applied[1], applied[2])
    /\ record[1][1].root = <<"/", "a", "/", "a">>

====
